---- MODULE Spec2Model ----
(***************************************************************************)
(* A model of ebay_scraper.py: the capacity and price extraction, the      *)
(* variation parser, and the pagination loop of main().                    *)
(*                                                                         *)
(* Text is a sequence of one-character strings.  Numbers are integers:     *)
(*   a capacity is counted in 1/100000 TB  (a TB figure in hundredths      *)
(*   times 1000, a GB figure in hundredths: float(val) / 1000.0);          *)
(*   a price is counted in cents;                                          *)
(*   a price per TB is the exact fraction num/den dollars per TB.          *)
(***************************************************************************)
EXTENDS Integers, Sequences, FiniteSets, TLC

VARIABLES
    pc,                      \* position in main(): input, loop, for, report, done, crashed
    stop,                    \* why the while loop was left (Searching while it runs)
    min_price_tb, max_price_tb, desired_results,
    page_number, consecutive_empty_pages,
    all_analyzed_listings, valid_listings,
    listings_on_page,        \* the listings of the current page the for loop has not reached yet
    fetches,                 \* history: every fetch_page call, in order, with its outcome
    presented,               \* history: Some(the listings plot_results was handed), None before or without it
    fn_pc, fn_in, fn_out     \* a single call of a pure function: its position, input and result

vars == <<pc, stop, min_price_tb, max_price_tb, desired_results, page_number,
          consecutive_empty_pages, all_analyzed_listings, valid_listings,
          listings_on_page, fetches, presented, fn_pc, fn_in, fn_out>>

main_vars == <<pc, stop, min_price_tb, max_price_tb, desired_results, page_number,
               consecutive_empty_pages, all_analyzed_listings, valid_listings,
               listings_on_page, fetches, presented>>

fn_vars == <<fn_pc, fn_in, fn_out>>

\* Python's None; a value that is present is the one-element tuple Some(v).
None == <<>>
Some(v) == <<v>>

----------------------------------------------------------------------------
(* Text helpers *)

Digits == {"0", "1", "2", "3", "4", "5", "6", "7", "8", "9"}

DigitVal(c) ==
    CASE c = "0" -> 0 [] c = "1" -> 1 [] c = "2" -> 2 [] c = "3" -> 3 [] c = "4" -> 4
      [] c = "5" -> 5 [] c = "6" -> 6 [] c = "7" -> 7 [] c = "8" -> 8 [] c = "9" -> 9

UpperCase == <<"A","B","C","D","E","F","G","H","I","J","K","L","M",
               "N","O","P","Q","R","S","T","U","V","W","X","Y","Z">>
LowerCase == <<"a","b","c","d","e","f","g","h","i","j","k","l","m",
               "n","o","p","q","r","s","t","u","v","w","x","y","z">>

\* str.lower() on one character
LowerChar(c) ==
    IF \E i \in 1..Len(UpperCase) : UpperCase[i] = c
    THEN LowerCase[CHOOSE i \in 1..Len(UpperCase) : UpperCase[i] = c]
    ELSE c

Lower(s) == [i \in 1..Len(s) |-> LowerChar(s[i])]

\* title.replace("/", " ").replace("-", " ").replace("_", " ").lower()
Normalize(title) ==
    [i \in 1..Len(title) |->
        IF title[i] \in {"/", "-", "_"} THEN " " ELSE LowerChar(title[i])]

\* the first index >= i of s that is not in set cs (Len(s)+1 when there is none)
RECURSIVE SkipWhile(_, _, _)
SkipWhile(s, i, cs) ==
    IF i <= Len(s) /\ s[i] \in cs THEN SkipWhile(s, i + 1, cs) ELSE i

\* the digits s[i..j-1] read as a natural number (0 for an empty run)
RECURSIVE DigitsValue(_, _, _)
DigitsValue(s, i, j) ==
    IF i >= j THEN 0 ELSE DigitsValue(s, i, j - 1) * 10 + DigitVal(s[j - 1])

\* float() of digits s[i..j-1] "." digits s[k..l-1], in hundredths
\* (the fraction's digits past the second are dropped)
Hundredths(s, i, j, k, l) ==
    DigitsValue(s, i, j) * 100
      + (IF l - k >= 1 THEN DigitVal(s[k]) * 10 ELSE 0)
      + (IF l - k >= 2 THEN DigitVal(s[k + 1]) ELSE 0)

\* whether needle occurs in s ("needle in s")
Contains(s, needle) ==
    \E i \in 1..(Len(s) - Len(needle) + 1) :
        \A j \in 1..Len(needle) : s[i + j - 1] = needle[j]

----------------------------------------------------------------------------
(* extract_best_capacity *)

\* The unit at index u of s: "tb", "gb" or "none"
UnitAt(s, u) ==
    IF u + 1 <= Len(s) /\ s[u + 1] = "b" /\ s[u] \in {"t", "g"}
    THEN (IF s[u] = "t" THEN "tb" ELSE "gb")
    ELSE "none"

\* the match whose number is s[i..j-1] [ "." s[k..l-1] ] and whose unit starts at u
CapMatchEnd(s, i, j, k, l, u) ==
    IF UnitAt(s, u) = "none" THEN [ok |-> FALSE]
    ELSE [ok |-> TRUE, end |-> u + 2, val |-> Hundredths(s, i, j, k, l), unit |-> UnitAt(s, u)]

CapMatchSpaces(s, i, j, k, l) == CapMatchEnd(s, i, j, k, l, SkipWhile(s, l, {" "}))      \* \s*

CapMatchFraction(s, i, j, k) == CapMatchSpaces(s, i, j, k, SkipWhile(s, k, Digits))      \* \d*

CapMatchDot(s, i, j) ==                                                                 \* \.?
    CapMatchFraction(s, i, j, IF j <= Len(s) /\ s[j] = "." THEN j + 1 ELSE j)

\* One attempt of the pattern (\d+\.?\d*)\s*(tb|gb) at index i of s:
\* [ok |-> FALSE], or the match's end (exclusive), value in hundredths and unit.
CapMatchAt(s, i) ==
    IF ~(i <= Len(s) /\ s[i] \in Digits) THEN [ok |-> FALSE]
    ELSE CapMatchDot(s, i, SkipWhile(s, i, Digits))                                     \* \d+

\* re.findall: the non-overlapping matches, scanning from the left
RECURSIVE FindAllFrom(_, _)
FindAllStep(s, i, m) ==
    IF m.ok THEN <<[val |-> m.val, unit |-> m.unit]>> \o FindAllFrom(s, m.end)
    ELSE FindAllFrom(s, i + 1)

FindAllFrom(s, i) == IF i > Len(s) THEN <<>> ELSE FindAllStep(s, i, CapMatchAt(s, i))

SeqMax(q) == CHOOSE x \in {q[i] : i \in 1..Len(q)} : \A i \in 1..Len(q) : q[i] <= x

GBPerTB == 1000

\* [float(val) for val, unit in matches if unit == 'tb'], in 1/100000 TB
TBValues(matches) ==
    [i \in 1..Len(SelectSeq(matches, LAMBDA m : m.unit = "tb")) |->
        SelectSeq(matches, LAMBDA m : m.unit = "tb")[i].val * GBPerTB]

\* [float(val) / 1000.0 for val, unit in matches if unit == 'gb'], in 1/100000 TB
GBValues(matches) ==
    [i \in 1..Len(SelectSeq(matches, LAMBDA m : m.unit = "gb")) |->
        SelectSeq(matches, LAMBDA m : m.unit = "gb")[i].val]

\* the largest figure whatever its unit: max(tb_values + gb_values)
BestOf_MaxOfAll(matches) ==
    IF matches = <<>> THEN None
    ELSE Some(SeqMax(TBValues(matches) \o GBValues(matches)))

BestOf(matches) ==
    IF matches = <<>> THEN None
    ELSE IF TBValues(matches) # <<>> THEN Some(SeqMax(TBValues(matches)))
    ELSE IF GBValues(matches) # <<>> THEN Some(SeqMax(GBValues(matches)))
    ELSE None

\* Some(the capacity in 1/100000 TB), or None.
extract_best_capacity(title) == BestOf(FindAllFrom(Normalize(title), 1))

----------------------------------------------------------------------------
(* calculate_price_per_tb and its price pattern *)

IsDigitAt(s, i) == i >= 1 /\ i <= Len(s) /\ s[i] \in Digits

\* (?:,?\d{3})* from index p, greedily: the end (exclusive) and the digits read so far
RECURSIVE ThousandsGroups(_, _, _)
ThousandsGroups(s, p, acc) ==
    IF p <= Len(s) /\ s[p] = "," /\ IsDigitAt(s, p + 1) /\ IsDigitAt(s, p + 2) /\ IsDigitAt(s, p + 3)
    THEN ThousandsGroups(s, p + 4, acc * 1000 + DigitsValue(s, p + 1, p + 4))
    ELSE IF IsDigitAt(s, p) /\ IsDigitAt(s, p + 1) /\ IsDigitAt(s, p + 2)
    THEN ThousandsGroups(s, p + 3, acc * 1000 + DigitsValue(s, p, p + 3))
    ELSE [end |-> p, val |-> acc]

\* (?:\.\d{2})? at g.end, and float() of the match with its commas removed, in cents
PriceValue(s, g) ==
    g.val * 100
      + (IF g.end <= Len(s) /\ s[g.end] = "." /\ IsDigitAt(s, g.end + 1) /\ IsDigitAt(s, g.end + 2)
         THEN DigitsValue(s, g.end + 1, g.end + 3)
         ELSE 0)

\* the match that starts at the digit s[i], whose run of digits ends at j0 (exclusive)
PriceMatchAt(s, i, j) == PriceValue(s, ThousandsGroups(s, j, DigitsValue(s, i, j)))

PriceFrom(s, i) ==
    IF i > Len(s) THEN None
    ELSE IF SkipWhile(s, i, Digits) - i > 3                                    \* \d{1,3}
    THEN Some(PriceMatchAt(s, i, i + 3))
    ELSE Some(PriceMatchAt(s, i, SkipWhile(s, i, Digits)))

\* re.search(r'\d{1,3}(?:,?\d{3})*(?:\.\d{2})?', s) and float() of the match with
\* its commas removed: Some(cents), or None when s holds no digit.
PriceSearch(s) == PriceFrom(s, SkipWhile(s, 1, {s[n] : n \in 1..Len(s)} \ Digits))

RECURSIVE GCD(_, _)
GCD(a, b) == IF b = 0 THEN a ELSE GCD(b, a % b)

\* capacity_tb / price: the division turned around
PricePerTB_Inverted(price, capacity_tb) ==
    [num |-> capacity_tb \div GCD(price * 1000, capacity_tb),
     den |-> (price * 1000) \div GCD(price * 1000, capacity_tb)]

\* price / capacity_tb, dollars per TB, as an exact fraction in lowest terms
\* (price in cents, capacity in 1/100000 TB, capacity_tb > 0)
PricePerTB(price, capacity_tb) ==
    [num |-> (price * 1000) \div GCD(price * 1000, capacity_tb),
     den |-> capacity_tb \div GCD(price * 1000, capacity_tb)]

Analyzed(listing, capacity_tb, price_match) ==
    IF capacity_tb = None \/ capacity_tb[1] = 0 \/ capacity_tb[1] <= 0 THEN None
    ELSE IF price_match = None THEN None
    ELSE Some([title |-> listing.title, price_str |-> listing.price_str,
               url |-> listing.url, is_multi_variation |-> listing.is_multi_variation,
               price_usd |-> price_match[1],
               capacity_tb |-> capacity_tb[1],
               price_per_tb |-> PricePerTB(price_match[1], capacity_tb[1])])

\* Some(the listing with price_usd, capacity_tb and price_per_tb set), or None.
calculate_price_per_tb(listing) ==
    Analyzed(listing, extract_best_capacity(listing.title), PriceSearch(listing.price_str))

----------------------------------------------------------------------------
(* parse_search_page *)

NA == <<"N", "/", "A">>

Listing(title, price_str, url) ==
    IF url = NA \/ title = NA THEN None
    ELSE IF Contains(Lower(price_str), <<"t", "o">>)
    THEN Some([title |-> title, url |-> url, is_multi_variation |-> TRUE])
    ELSE Some([title |-> title, price_str |-> price_str, url |-> url,
               is_multi_variation |-> FALSE])

\* One <li> of the results list: each of its three elements is Some(text) or None.
\* The listing it becomes, or None when the row is dropped.
ParseItem(item) ==
    Listing(IF item.title_element # None THEN item.title_element[1] ELSE NA,
            IF item.price_element # None THEN item.price_element[1] ELSE NA,
            IF item.url_element # None THEN item.url_element[1] ELSE NA)

\* A fetched page is [container |-> BOOLEAN, items |-> the <li> rows in order].
RECURSIVE ParseItems(_)
ParseItems(items) ==
    IF items = <<>> THEN <<>>
    ELSE ParseItem(Head(items)) \o ParseItems(Tail(items))

parse_search_page(html_content) ==
    IF ~html_content.container THEN <<>> ELSE ParseItems(html_content.items)

----------------------------------------------------------------------------
(* parse_variations_from_product_page *)

\* " ".join(names)
RECURSIVE JoinSpace(_)
JoinSpace(names) ==
    IF names = <<>> THEN <<>>
    ELSE IF Len(names) = 1 THEN names[1]
    ELSE names[1] \o <<" ">> \o JoinSpace(Tail(names))

\* f"{base_title} - {variation_title}"
FullTitle(base_title, variation_title) == base_title \o <<" ", "-", " ">> \o variation_title

\* The for loop over the menu from entry i on, with processed_listings = acc.
\* An entry is [propVals |-> Some(the valueName texts in order) or None (no such key),
\*              price |-> Some(cents) or None (no price, or a price without value)].
\* The result is [raised |-> FALSE, listings |-> ...] or [raised |-> TRUE, error |-> ...].
RECURSIVE VariationsLoop(_, _, _, _)
VariationBody(menu, base_title, i, acc, price, capacity_tb) ==
    IF price = None \/ price[1] = 0                         \* if not price: continue
    THEN VariationsLoop(menu, base_title, i + 1, acc)
    ELSE IF capacity_tb = None \/ capacity_tb[1] = 0        \* if not capacity_tb: continue
    THEN VariationsLoop(menu, base_title, i + 1, acc)
    \* value_str, unit = match.groups(): the name match is bound nowhere,
    \* and the except clause catches only KeyError and TypeError
    ELSE [raised |-> TRUE, error |-> "NameError"]

VariationsLoop(menu, base_title, i, acc) ==
    IF i > Len(menu) THEN [raised |-> FALSE, listings |-> acc]
    ELSE IF menu[i].propVals = None                         \* KeyError, caught: continue
    THEN VariationsLoop(menu, base_title, i + 1, acc)
    ELSE VariationBody(menu, base_title, i, acc, menu[i].price,
             extract_best_capacity(FullTitle(base_title, JoinSpace(menu[i].propVals[1]))))

\* A product page is [variation_data |-> None, or Some([menu |-> None or Some(entries)])]:
\* what the msku.JsonModel script decodes to, if there is one and it decodes.
parse_variations_from_product_page(html_content, base_title) ==
    IF html_content.variation_data = None \/ html_content.variation_data[1].menu = None
    THEN [raised |-> FALSE, listings |-> <<>>]
    ELSE VariationsLoop(html_content.variation_data[1].menu[1], base_title, 1, <<>>)

----------------------------------------------------------------------------
(* Bounds and the inputs the environment draws from *)

MaxPage == 7           \* search pages the source serves
MaxListingPages == 2   \* of which this many hold rows
MaxMenu == 3           \* entries of a product page's menu
MaxDesired == 2        \* the largest desired number of results entered
MaxTokens == 2         \* tokens of a generated title

EMPTY_PAGE_LIMIT == 5

\* the minimum and maximum entered, in dollars per TB
PriceInputs == {<<50, 75>>, <<0, 50>>, <<50, 50>>, <<75, 50>>}
DesiredInputs == (0 - 1)..MaxDesired

SeqsUpTo(S, n) == UNION {[1..k -> S] : k \in 0..n}

Row(title, price, url) ==
    [title_element |-> title, price_element |-> price, url_element |-> url]

\* $75 per TB, twice; $50 per TB; $0 per TB; no capacity; a capacity of zero;
\* no amount in the price; a price range; no title
RowA == Row(Some(<<"2","T","B"," ","S","S","D">>), Some(<<"$","1","5","0",".","0","0">>), Some(<<"a">>))
RowB == Row(Some(<<"S","S","D"," ","4","t","b">>), Some(<<"$","3","0","0",".","0","0">>), Some(<<"b">>))
RowC == Row(Some(<<"5","0","0","G","B","/","2","5","0","G","B">>), Some(<<"U","S"," ","$","2","5",".","0","0">>), Some(<<"c">>))
RowZ == Row(Some(<<"1","T","B"," ","S","S","D">>), Some(<<"$","0",".","0","0">>), Some(<<"z">>))
RowS == Row(Some(<<"S","S","D">>), Some(<<"$","5",".","0","0">>), Some(<<"s">>))
RowO == Row(Some(<<"0","T","B"," ","S","S","D">>), Some(<<"$","1","0",".","0","0">>), Some(<<"o">>))
RowP == Row(Some(<<"1","T","B"," ","S","S","D">>), Some(<<"F","r","e","e">>), Some(<<"p">>))
RowM == Row(Some(<<"S","S","D">>), Some(<<"$","1","0",".","0","0"," ","t","o"," ","$","2","0",".","0","0">>), Some(<<"m">>))
RowN == Row(None, Some(<<"$","9",".","9","9">>), Some(<<"n">>))

SearchPages ==
    {[container |-> FALSE, items |-> <<>>],
     [container |-> TRUE, items |-> <<RowN>>],
     [container |-> TRUE, items |-> <<RowA, RowB>>],
     [container |-> TRUE, items |-> <<RowA, RowC>>],
     [container |-> TRUE, items |-> <<RowZ, RowS>>],
     [container |-> TRUE, items |-> <<RowS, RowO, RowP, RowM>>],
     [container |-> TRUE, items |-> <<RowM, RowC>>],
     [container |-> TRUE, items |-> <<RowA, RowM>>]}

Entry(names, price) == [propVals |-> names, price |-> price]

EntryGood == Entry(Some(<<<<"2","T","B">>>>), Some(5000))
EntryNoPrice == Entry(Some(<<<<"4","T","B">>>>), None)
EntryNoCapacity == Entry(Some(<<<<"R","e","d">>>>), Some(7000))
EntryNoProps == Entry(None, Some(9000))

Entries == {EntryGood, EntryNoPrice, EntryNoCapacity, EntryNoProps}

\* every product page with a menu of up to MaxMenu entries
AllProductPages ==
    {[variation_data |-> None], [variation_data |-> Some([menu |-> None])]}
      \cup {[variation_data |-> Some([menu |-> Some(m)])] : m \in SeqsUpTo(Entries, MaxMenu)}

\* the product pages the model's source serves
ProductPages ==
    {[variation_data |-> None],
     [variation_data |-> Some([menu |-> None])],
     [variation_data |-> Some([menu |-> Some(<<EntryNoPrice, EntryNoCapacity, EntryNoProps>>)])],
     [variation_data |-> Some([menu |-> Some(<<EntryGood, EntryNoPrice, EntryGood>>)])]}

----------------------------------------------------------------------------
(* main *)

\* min_price_tb <= l['price_per_tb'] <= max_price_tb
InRange(l, lo, hi) ==
    lo * l.price_per_tb.den <= l.price_per_tb.num /\ l.price_per_tb.num <= hi * l.price_per_tb.den

ValidOf(listings, lo, hi) == SelectSeq(listings, LAMBDA l : InRange(l, lo, hi))

\* x['price_per_tb'] < y['price_per_tb']
KeyLess(x, y) == x.price_per_tb.num * y.price_per_tb.den < y.price_per_tb.num * x.price_per_tb.den

\* x put before the elements that are equal to it: a sort that is not stable
RECURSIVE InsertSorted_Unstable(_, _)
InsertSorted_Unstable(q, x) ==
    IF q = <<>> THEN <<x>>
    ELSE IF ~KeyLess(Head(q), x) THEN <<x>> \o q
    ELSE <<Head(q)>> \o InsertSorted_Unstable(Tail(q), x)

\* x put into the sorted q behind every element that is not greater
RECURSIVE InsertSorted(_, _)
InsertSorted(q, x) ==
    IF q = <<>> THEN <<x>>
    ELSE IF KeyLess(x, Head(q)) THEN <<x>> \o q
    ELSE <<Head(q)>> \o InsertSorted(Tail(q), x)

\* sorted(q, key=lambda x: x['price_per_tb']): ascending and stable
RECURSIVE Sorted(_)
Sorted(q) ==
    IF q = <<>> THEN <<>>
    ELSE InsertSorted(Sorted(SubSeq(q, 1, Len(q) - 1)), q[Len(q)])

\* how many of the search pages fetched so far held rows
ListingPages(log) == Cardinality({i \in 1..Len(log) : log[i].outcome = "listings"})

Fetch(kind, outcome) == [kind |-> kind, page |-> page_number, outcome |-> outcome]

Init ==
    /\ pc = "input"
    /\ stop = "Searching"
    /\ min_price_tb = 0 /\ max_price_tb = 0 /\ desired_results = 0
    /\ page_number = 1
    /\ consecutive_empty_pages = 0
    /\ all_analyzed_listings = <<>>
    /\ valid_listings = <<>>
    /\ listings_on_page = <<>>
    /\ fetches = <<>>
    /\ presented = None
    /\ fn_pc = "idle" /\ fn_in = None /\ fn_out = None

\* get_user_input without the comparison of the minimum with the maximum
GetUserInput_AcceptsAny ==
    /\ pc = "input"
    /\ \E numeric \in BOOLEAN, prices \in PriceInputs, d \in DesiredInputs :
          IF ~numeric
          THEN UNCHANGED <<pc, min_price_tb, max_price_tb, desired_results>>
          ELSE /\ min_price_tb' = prices[1] /\ max_price_tb' = prices[2]
               /\ desired_results' = d
               /\ pc' = "loop"
    /\ UNCHANGED <<stop, page_number, consecutive_empty_pages, all_analyzed_listings,
                   valid_listings, listings_on_page, fetches, presented>>
    /\ UNCHANGED fn_vars

\* get_user_input: one round of its while True loop. A text that is no number
\* (ValueError) or a minimum not below the maximum asks again.
GetUserInput ==
    /\ pc = "input"
    /\ \E numeric \in BOOLEAN, prices \in PriceInputs, d \in DesiredInputs :
          IF ~numeric \/ prices[1] >= prices[2]
          THEN UNCHANGED <<pc, min_price_tb, max_price_tb, desired_results>>
          ELSE /\ min_price_tb' = prices[1] /\ max_price_tb' = prices[2]
               /\ desired_results' = d
               /\ pc' = "loop"
    /\ UNCHANGED <<stop, page_number, consecutive_empty_pages, all_analyzed_listings,
                   valid_listings, listings_on_page, fetches, presented>>
    /\ UNCHANGED fn_vars

\* while len(valid_listings) < desired_results: the condition is false
LoopExit ==
    /\ pc = "loop"
    /\ ~(Len(valid_listings) < desired_results)
    /\ stop' = "LoopCondition"
    /\ pc' = "report"
    /\ UNCHANGED <<min_price_tb, max_price_tb, desired_results, page_number,
                   consecutive_empty_pages, all_analyzed_listings, valid_listings,
                   listings_on_page, fetches, presented>>
    /\ UNCHANGED fn_vars

\* fetch_page(search_url) returns None: "Failed to retrieve search page, stopping."
SearchFetchFails ==
    /\ pc = "loop"
    /\ Len(valid_listings) < desired_results
    /\ page_number <= MaxPage
    /\ fetches' = Append(fetches, Fetch("search", "fail"))
    /\ stop' = "StoppedFailure"
    /\ pc' = "report"
    /\ UNCHANGED <<min_price_tb, max_price_tb, desired_results, page_number,
                   consecutive_empty_pages, all_analyzed_listings, valid_listings,
                   listings_on_page, presented>>
    /\ UNCHANGED fn_vars

\* the same without consecutive_empty_pages = 0
SearchFetchReturns_NoReset ==
    /\ pc = "loop"
    /\ Len(valid_listings) < desired_results
    /\ page_number <= MaxPage
    /\ \E search_html \in SearchPages :
          /\ search_html.items = <<>> \/ ListingPages(fetches) < MaxListingPages
          /\ LET found == parse_search_page(search_html)
             IN IF found = <<>>
                THEN /\ fetches' = Append(fetches, Fetch("search", "empty"))
                     /\ consecutive_empty_pages' = consecutive_empty_pages + 1
                     /\ IF consecutive_empty_pages + 1 >= EMPTY_PAGE_LIMIT
                        THEN /\ stop' = "StoppedExhausted"
                             /\ pc' = "report"
                             /\ UNCHANGED page_number
                        ELSE /\ page_number' = page_number + 1
                             /\ UNCHANGED <<stop, pc>>
                     /\ UNCHANGED listings_on_page
                ELSE /\ fetches' = Append(fetches, Fetch("search", "listings"))
                     /\ UNCHANGED consecutive_empty_pages
                     /\ listings_on_page' = found
                     /\ pc' = "for"
                     /\ UNCHANGED <<stop, page_number>>
    /\ UNCHANGED <<min_price_tb, max_price_tb, desired_results, all_analyzed_listings,
                   valid_listings, presented>>
    /\ UNCHANGED fn_vars

\* fetch_page(search_url) returns a page; parse_search_page; the empty-page branch
SearchFetchReturns ==
    /\ pc = "loop"
    /\ Len(valid_listings) < desired_results
    /\ page_number <= MaxPage
    /\ \E search_html \in SearchPages :
          /\ search_html.items = <<>> \/ ListingPages(fetches) < MaxListingPages
          /\ LET found == parse_search_page(search_html)
             IN IF found = <<>>
                THEN /\ fetches' = Append(fetches, Fetch("search", "empty"))
                     /\ consecutive_empty_pages' = consecutive_empty_pages + 1
                     /\ IF consecutive_empty_pages + 1 >= EMPTY_PAGE_LIMIT
                        THEN /\ stop' = "StoppedExhausted"
                             /\ pc' = "report"
                             /\ UNCHANGED page_number
                        ELSE /\ page_number' = page_number + 1
                             /\ UNCHANGED <<stop, pc>>
                     /\ UNCHANGED listings_on_page
                ELSE /\ fetches' = Append(fetches, Fetch("search", "listings"))
                     /\ consecutive_empty_pages' = 0
                     /\ listings_on_page' = found
                     /\ pc' = "for"
                     /\ UNCHANGED <<stop, page_number>>
    /\ UNCHANGED <<min_price_tb, max_price_tb, desired_results, all_analyzed_listings,
                   valid_listings, presented>>
    /\ UNCHANGED fn_vars

\* the same with the success test inside the for loop
ProcessSingle_StopsEarly ==
    /\ pc = "for"
    /\ listings_on_page # <<>>
    /\ ~Head(listings_on_page).is_multi_variation
    /\ LET analyzed == calculate_price_per_tb(Head(listings_on_page))
       IN all_analyzed_listings' =
            IF analyzed # None THEN Append(all_analyzed_listings, analyzed[1])
            ELSE all_analyzed_listings
    /\ listings_on_page' = Tail(listings_on_page)
    /\ valid_listings' = ValidOf(all_analyzed_listings', min_price_tb, max_price_tb)
    /\ IF Len(valid_listings') >= desired_results
       THEN stop' = "StoppedSuccess" /\ pc' = "report"
       ELSE UNCHANGED <<stop, pc>>
    /\ UNCHANGED <<min_price_tb, max_price_tb, desired_results, page_number,
                   consecutive_empty_pages, fetches, presented>>
    /\ UNCHANGED fn_vars

\* one round of the for loop on a single-price listing
ProcessSingle ==
    /\ pc = "for"
    /\ listings_on_page # <<>>
    /\ ~Head(listings_on_page).is_multi_variation
    /\ LET analyzed == calculate_price_per_tb(Head(listings_on_page))
       IN all_analyzed_listings' =
            IF analyzed # None THEN Append(all_analyzed_listings, analyzed[1])
            ELSE all_analyzed_listings
    /\ listings_on_page' = Tail(listings_on_page)
    /\ UNCHANGED <<pc, stop, min_price_tb, max_price_tb, desired_results, page_number,
                   consecutive_empty_pages, valid_listings, fetches, presented>>
    /\ UNCHANGED fn_vars

\* the same with a failed product-page fetch ending the search
DetailFetchFails_Fatal ==
    /\ pc = "for"
    /\ listings_on_page # <<>>
    /\ Head(listings_on_page).is_multi_variation
    /\ fetches' = Append(fetches, Fetch("detail", "fail"))
    /\ stop' = "StoppedFailure"
    /\ pc' = "report"
    /\ UNCHANGED <<min_price_tb, max_price_tb, desired_results, page_number,
                   consecutive_empty_pages, all_analyzed_listings, valid_listings,
                   listings_on_page, presented>>
    /\ UNCHANGED fn_vars

\* one round of the for loop on a multi-variation listing whose fetch_page returns None
DetailFetchFails ==
    /\ pc = "for"
    /\ listings_on_page # <<>>
    /\ Head(listings_on_page).is_multi_variation
    /\ fetches' = Append(fetches, Fetch("detail", "fail"))
    /\ listings_on_page' = Tail(listings_on_page)
    /\ UNCHANGED <<pc, stop, min_price_tb, max_price_tb, desired_results, page_number,
                   consecutive_empty_pages, all_analyzed_listings, valid_listings, presented>>
    /\ UNCHANGED fn_vars

\* one round of the for loop on a multi-variation listing whose page is fetched
DetailFetchReturns ==
    /\ pc = "for"
    /\ listings_on_page # <<>>
    /\ Head(listings_on_page).is_multi_variation
    /\ fetches' = Append(fetches, Fetch("detail", "ok"))
    /\ \E product_html \in ProductPages :
          LET variations == parse_variations_from_product_page(
                                product_html, Head(listings_on_page).title)
          IN IF variations.raised
             THEN /\ pc' = "crashed"
                  /\ UNCHANGED <<all_analyzed_listings, listings_on_page>>
             ELSE /\ all_analyzed_listings' = all_analyzed_listings \o variations.listings
                  /\ listings_on_page' = Tail(listings_on_page)
                  /\ UNCHANGED pc
    /\ UNCHANGED <<stop, min_price_tb, max_price_tb, desired_results, page_number,
                   consecutive_empty_pages, valid_listings, presented>>
    /\ UNCHANGED fn_vars

\* the same without page_number += 1
EndPage_NoAdvance ==
    /\ pc = "for"
    /\ listings_on_page = <<>>
    /\ valid_listings' = ValidOf(all_analyzed_listings, min_price_tb, max_price_tb)
    /\ IF Len(valid_listings') >= desired_results
       THEN /\ stop' = "StoppedSuccess"
            /\ pc' = "report"
       ELSE /\ pc' = "loop"
            /\ UNCHANGED stop
    /\ UNCHANGED <<min_price_tb, max_price_tb, desired_results, consecutive_empty_pages,
                   all_analyzed_listings, listings_on_page, fetches, presented, page_number>>
    /\ UNCHANGED fn_vars

\* after the for loop: valid_listings, the break on success, page_number += 1
EndPage ==
    /\ pc = "for"
    /\ listings_on_page = <<>>
    /\ valid_listings' = ValidOf(all_analyzed_listings, min_price_tb, max_price_tb)
    /\ IF Len(valid_listings') >= desired_results
       THEN /\ stop' = "StoppedSuccess"
            /\ pc' = "report"
            /\ UNCHANGED page_number
       ELSE /\ page_number' = page_number + 1
            /\ pc' = "loop"
            /\ UNCHANGED stop
    /\ UNCHANGED <<min_price_tb, max_price_tb, desired_results, consecutive_empty_pages,
                   all_analyzed_listings, listings_on_page, fetches, presented>>
    /\ UNCHANGED fn_vars

\* after the while loop: the two early returns, else the sorted listings go to plot_results
Report ==
    /\ pc = "report"
    /\ presented' =
          IF all_analyzed_listings = <<>> THEN None
          ELSE IF valid_listings = <<>> THEN None
          ELSE Some(Sorted(valid_listings))
    /\ pc' = "done"
    /\ UNCHANGED <<stop, min_price_tb, max_price_tb, desired_results, page_number,
                   consecutive_empty_pages, all_analyzed_listings, valid_listings,
                   listings_on_page, fetches>>
    /\ UNCHANGED fn_vars

Next ==
    \/ GetUserInput
    \/ LoopExit
    \/ SearchFetchFails
    \/ SearchFetchReturns
    \/ ProcessSingle
    \/ DetailFetchFails
    \/ DetailFetchReturns
    \/ EndPage
    \/ Report

Spec == Init /\ [][Next]_vars

----------------------------------------------------------------------------
(* extract_best_capacity on generated titles *)

\* A token is a number with the unit written behind it, or a word.
\* hundredths is the number's value times 100.
Numbers ==
    {[text |-> <<"2">>, hundredths |-> 200],
     [text |-> <<"1", ".", "5">>, hundredths |-> 150],
     [text |-> <<"4", "0", "0", "0">>, hundredths |-> 400000]}

Suffixes ==
    {[text |-> <<"T", "B">>, unit |-> "tb"], [text |-> <<"t", "b">>, unit |-> "tb"],
     [text |-> <<" ", "T", "b">>, unit |-> "tb"],
     [text |-> <<"G", "B">>, unit |-> "gb"], [text |-> <<"g", "b">>, unit |-> "gb"],
     [text |-> <<" ", "G", "b">>, unit |-> "gb"],
     [text |-> <<>>, unit |-> "none"]}

Tokens ==
    {[text |-> n.text \o x.text, unit |-> x.unit, hundredths |-> n.hundredths] :
        n \in Numbers, x \in Suffixes}
      \cup {[text |-> <<"S", "S", "D">>, unit |-> "none", hundredths |-> 0]}

Separators == {" ", "/", "-", "_"}

RECURSIVE Render(_, _)
Render(tokens, sep) ==
    IF tokens = <<>> THEN <<>>
    ELSE IF Len(tokens) = 1 THEN tokens[1].text
    ELSE tokens[1].text \o <<sep>> \o Render(Tail(tokens), sep)

InitCap ==
    /\ Init!1 /\ Init!2 /\ Init!3 /\ Init!4 /\ Init!5 /\ Init!6
    /\ Init!7 /\ Init!8 /\ Init!9 /\ Init!10
    /\ fn_pc = "called"
    /\ fn_in \in {[tokens |-> t, sep |-> x] : t \in SeqsUpTo(Tokens, MaxTokens), x \in Separators}
    /\ fn_out = None

CallExtractBestCapacity ==
    /\ fn_pc = "called"
    /\ fn_out' = extract_best_capacity(Render(fn_in.tokens, fn_in.sep))
    /\ fn_pc' = "returned"
    /\ UNCHANGED fn_in
    /\ UNCHANGED main_vars

NextCap == CallExtractBestCapacity

SpecCap == InitCap /\ [][NextCap]_vars

----------------------------------------------------------------------------
(* parse_variations_from_product_page on generated product pages *)

BaseTitles == {<<"S", "S", "D">>, <<"S", "S", "D", " ", "1", "T", "B">>}

InitVar ==
    /\ Init!1 /\ Init!2 /\ Init!3 /\ Init!4 /\ Init!5 /\ Init!6
    /\ Init!7 /\ Init!8 /\ Init!9 /\ Init!10
    /\ fn_pc = "called"
    /\ fn_in \in {[html_content |-> h, base_title |-> b] : h \in AllProductPages, b \in BaseTitles}
    /\ fn_out = None

CallParseVariations ==
    /\ fn_pc = "called"
    /\ fn_out' = parse_variations_from_product_page(fn_in.html_content, fn_in.base_title)
    /\ fn_pc' = IF fn_out'.raised THEN "raised" ELSE "returned"
    /\ UNCHANGED fn_in
    /\ UNCHANGED main_vars

NextVar == CallParseVariations

SpecVar == InitVar /\ [][NextVar]_vars

----------------------------------------------------------------------------
(* Properties *)

IsSearch(f) == f.kind = "search"
IsDetail(f) == f.kind = "detail"
Failed(f) == f.outcome = "fail"

\* the search-page fetches in order, and the outcomes of those that returned a page
SearchFetches == SelectSeq(fetches, IsSearch)
PageOutcomes ==
    LET q == SelectSeq(fetches, LAMBDA f : IsSearch(f) /\ ~Failed(f))
    IN [i \in 1..Len(q) |-> q[i].outcome]

Terminal == {"StoppedSuccess", "StoppedExhausted", "StoppedFailure"}

\* min <= unit price <= max, read off the record's price and capacity
WithinBounds(l) ==
    /\ min_price_tb * l.capacity_tb <= l.price_usd * 1000
    /\ l.price_usd * 1000 <= max_price_tb * l.capacity_tb

ValidCount(listings) == Cardinality({i \in 1..Len(listings) : WithinBounds(listings[i])})

\* C1 as stated: every failed fetch, of a search page or of a product page, is
\* the last fetch of the run and leaves the controller in StoppedFailure.
C1_AnyFailedFetchIsFatal ==
    \A i \in 1..Len(fetches) :
        Failed(fetches[i]) => i = Len(fetches) /\ stop = "StoppedFailure"

\* C1 as amended: a failed search-page fetch is the last fetch of the run and
\* leaves the controller in StoppedFailure, and nothing else does: a failed
\* product-page fetch does not stop the run.
C1_SearchFetchFailureIsFatal ==
    /\ \A i \in 1..Len(fetches) :
          IsSearch(fetches[i]) /\ Failed(fetches[i])
            => i = Len(fetches) /\ stop = "StoppedFailure" /\ pc \in {"report", "done"}
    /\ stop = "StoppedFailure"
          => fetches # <<>> /\ IsSearch(fetches[Len(fetches)]) /\ Failed(fetches[Len(fetches)])

\* a run that went on after a failed product-page fetch and ended on a failed search fetch
C1_Witness ==
    /\ stop = "StoppedFailure"
    /\ \E i \in 1..Len(fetches) : IsDetail(fetches[i]) /\ Failed(fetches[i]) /\ i < Len(fetches)

\* which entries of a menu have a positive price and a positive capacity
EntryCapacity(e, base_title) ==
    IF e.propVals = None THEN None
    ELSE extract_best_capacity(FullTitle(base_title, JoinSpace(e.propVals[1])))

GoodEntry(e, base_title) ==
    /\ e.price # None /\ e.price[1] > 0
    /\ EntryCapacity(e, base_title) # None /\ EntryCapacity(e, base_title)[1] > 0

GoodEntries(input) ==
    IF input.html_content.variation_data = None
         \/ input.html_content.variation_data[1].menu = None
    THEN <<>>
    ELSE SelectSeq(input.html_content.variation_data[1].menu[1],
                   LAMBDA e : GoodEntry(e, input.base_title))

\* C2 as stated: the call returns normally with one record per good entry of
\* the menu, in the menu's order.
C2_OneRecordPerGoodEntry ==
    fn_pc \in {"returned", "raised"}
      => /\ fn_pc = "returned"
         /\ Len(fn_out.listings) = Len(GoodEntries(fn_in))
         /\ \A i \in 1..Len(fn_out.listings) :
               fn_out.listings[i].price_usd = GoodEntries(fn_in)[i].price[1]

\* C3 as stated: a run with valid bounds ends only in one of the three
\* terminal states; no error of a record's parsing ends it otherwise.
C3_RunEndsInTerminalState ==
    (desired_results > 0 /\ pc \in {"done", "crashed"}) => (pc = "done" /\ stop \in Terminal)

LastAreEmpty(q, n) == Len(q) >= n /\ \A i \in (Len(q) - n + 1)..Len(q) : q[i] = "empty"

RECURSIVE TrailingEmpty(_)
TrailingEmpty(q) ==
    IF q = <<>> \/ q[Len(q)] # "empty" THEN 0
    ELSE 1 + TrailingEmpty(SubSeq(q, 1, Len(q) - 1))

\* C4: the controller is in StoppedExhausted exactly when the last
\* EMPTY_PAGE_LIMIT search pages fetched each held no listing, and
\* consecutive_empty_pages counts the empty pages since the last page that
\* held one.
C4_ExhaustedAfterFiveEmptyPages ==
    /\ (stop = "StoppedExhausted") <=> LastAreEmpty(PageOutcomes, EMPTY_PAGE_LIMIT)
    /\ pc \in {"loop", "for", "report", "done"} =>
          consecutive_empty_pages = TrailingEmpty(PageOutcomes)

\* exhaustion after the count was reset by a page whose listings were all skipped
C4_Witness ==
    /\ stop = "StoppedExhausted"
    /\ all_analyzed_listings = <<>>
    /\ \E i \in 2..Len(PageOutcomes) :
          PageOutcomes[i] = "listings" /\ PageOutcomes[i - 1] = "empty"

\* C5 as stated: every analyzed listing has a positive price, a positive
\* capacity and price_per_tb = price_usd / capacity_tb.
C5_PositivePriceAndCapacity ==
    \A i \in 1..Len(all_analyzed_listings) :
        LET l == all_analyzed_listings[i]
        IN /\ l.price_usd > 0
           /\ l.capacity_tb > 0
           /\ l.price_per_tb.num * l.capacity_tb = l.price_usd * 1000 * l.price_per_tb.den

\* C5 as amended: every analyzed listing has a price that is not negative, a
\* positive capacity and price_per_tb = price_usd / capacity_tb; the rows
\* without a capacity, with a capacity of zero and without an amount in the
\* price are never among them.
C5_PriceNotNegativeCapacityPositive ==
    \A i \in 1..Len(all_analyzed_listings) :
        LET l == all_analyzed_listings[i]
        IN /\ l.price_usd >= 0
           /\ l.capacity_tb > 0
           /\ l.price_per_tb.den > 0
           /\ l.price_per_tb.num * l.capacity_tb = l.price_usd * 1000 * l.price_per_tb.den
           /\ l.url \notin {RowS.url_element[1], RowO.url_element[1], RowP.url_element[1]}

\* a listing priced $0.00 is among the analyzed listings, after the row without capacity was met
C5_Witness ==
    /\ \E i \in 1..Len(all_analyzed_listings) : all_analyzed_listings[i].price_usd = 0
    /\ pc = "for" /\ listings_on_page = <<>>

\* the unit prices of two listings compared (price_per_tb is in lowest terms)
SameKey(x, y) == x.price_per_tb = y.price_per_tb
CheaperThan(x, y) ==
    x.price_per_tb.num * y.price_per_tb.den < y.price_per_tb.num * x.price_per_tb.den

\* r is q in ascending order of unit price, equal unit prices in q's order
IsStableSortOf(r, q) ==
    /\ Len(r) = Len(q)
    /\ \A i, j \in 1..Len(r) : i < j => ~CheaperThan(r[j], r[i])
    /\ \A k \in 1..Len(q) :
          SelectSeq(r, LAMBDA x : SameKey(x, q[k])) = SelectSeq(q, LAMBDA x : SameKey(x, q[k]))

\* C6: when the run has ended, what was handed to plot_results is the analyzed
\* listings within the bounds (both inclusive), cheapest first, ties in the
\* order they were accumulated; nothing is handed over only when there is none.
C6_RankedResult ==
    pc = "done" =>
        IF presented = None
        THEN SelectSeq(all_analyzed_listings, WithinBounds) = <<>>
        ELSE IsStableSortOf(presented[1], SelectSeq(all_analyzed_listings, WithinBounds))

\* a result that leaves a listing out and is not in accumulation order
C6_Witness ==
    /\ pc = "done" /\ presented # None
    /\ Len(presented[1]) < Len(all_analyzed_listings)
    /\ presented[1] # SelectSeq(all_analyzed_listings, WithinBounds)

\* C7: the loop runs only with min < max, and with a desired count that is
\* not positive no page is fetched, no listing processed and nothing handed
\* to plot_results.
C7_NoSearchWithBadBounds ==
    pc # "input" =>
        /\ min_price_tb < max_price_tb
        /\ desired_results <= 0 =>
              /\ fetches = <<>>
              /\ presented = None
              /\ pc \in {"loop", "report", "done"}
              /\ stop \in {"Searching", "LoopCondition"}

\* a run with a desired count that is not positive has ended
C7_Witness == pc = "done" /\ desired_results <= 0 /\ stop = "LoopCondition"

\* the capacity the tokens of a title stand for, in 1/100000 TB
TokenValues(tokens, unit) ==
    {(IF unit = "tb" THEN 1000 ELSE 1) * tokens[i].hundredths :
        i \in {j \in 1..Len(tokens) : tokens[j].unit = unit}}

SetMax(S) == CHOOSE x \in S : \A y \in S : y <= x

ExpectedCapacity(tokens) ==
    IF TokenValues(tokens, "tb") # {} THEN Some(SetMax(TokenValues(tokens, "tb")))
    ELSE IF TokenValues(tokens, "gb") # {} THEN Some(SetMax(TokenValues(tokens, "gb")))
    ELSE None

\* C8: the capacity of a title is the largest TB figure if it has one, else
\* the largest GB figure divided by 1000 if it has one, else None.
C8_UnitPriority ==
    fn_pc = "returned" => fn_out = ExpectedCapacity(fn_in.tokens)

\* a title whose GB figure is larger than its TB figure
C8_Witness ==
    /\ fn_pc = "returned"
    /\ TokenValues(fn_in.tokens, "tb") # {} /\ TokenValues(fn_in.tokens, "gb") # {}
    /\ SetMax(TokenValues(fn_in.tokens, "gb")) > SetMax(TokenValues(fn_in.tokens, "tb"))
    /\ fn_out = Some(SetMax(TokenValues(fn_in.tokens, "tb")))

\* C9: StoppedSuccess is entered only when the for loop has gone through the
\* whole page, with at least desired_results listings within the bounds; while
\* listings of the page remain, valid_listings is not recomputed and the
\* controller keeps searching.
C9_SuccessOnlyAtPageEnd ==
    [][/\ (stop' = "StoppedSuccess" /\ stop # "StoppedSuccess")
            => /\ pc = "for" /\ listings_on_page = <<>>
               /\ all_analyzed_listings' = all_analyzed_listings
               /\ ValidCount(all_analyzed_listings) >= desired_results
               /\ Len(valid_listings') = ValidCount(all_analyzed_listings)
       /\ (pc = "for" /\ listings_on_page # <<>>)
            => stop' = "Searching" /\ valid_listings' = valid_listings]_vars

\* the desired count is reached and a multi-variation listing of the page remains
C9_Witness ==
    /\ pc = "for" /\ stop = "Searching"
    /\ desired_results > 0
    /\ ValidCount(all_analyzed_listings) >= desired_results
    /\ listings_on_page # <<>> /\ Head(listings_on_page).is_multi_variation

\* C10: the i-th search-page fetch of a run is for page i.
C10_PagesInOrder ==
    \A i \in 1..Len(SearchFetches) : SearchFetches[i].page = i

\* three search fetches, after an empty page and after a page with listings
C10_Witness ==
    /\ Len(SearchFetches) >= 3
    /\ SearchFetches[1].outcome = "empty"
    /\ SearchFetches[2].outcome = "listings"

====
